---- MODULE Spec2Model ----
(***************************************************************************)
(* Model of the webtoon scraper's Detail Crawler (webtoons                 *)
(* story/chapter.rs: parse, chapter) running on rayon's global pool, and   *)
(* of the Resilient Fetcher (project_core lib.rs: ResponseFactory::get)    *)
(* that every chapter worker calls.                                        *)
(*                                                                         *)
(* One behaviour is one call of chapter::parse(start, end, id, .., skip).  *)
(* Every chapter of the range is one unit of work executed by one pool     *)
(* thread; the units interleave freely, which covers every order in which  *)
(* the workers can complete.                                               *)
(*                                                                         *)
(* A unit of work takes one step per GET of its get call and one per       *)
(* sleep.  The GET that is answered ends the call, and the thread runs the *)
(* rest of chapter() on the response in the same step.  A unit that panics *)
(* does not stop the others: rayon goes on running the units of the other  *)
(* pieces of the range and resumes the panic in parse when none is running.*)
(*                                                                         *)
(* chapter() fetches through BlockingReferClientFactory::get and unwraps   *)
(* the result; the retry loop is that of ResponseFactory::get.  Whether    *)
(* exhaustion panics inside get or comes back as an Err that is unwrapped, *)
(* the unit of work panics: Exhaust stands for both.                       *)
(***************************************************************************)
EXTENDS Integers, Sequences, FiniteSets, TLC

\* ------------------------------------------------------------------ bounds
\* Largest chapter id of the ranges drawn for Spec.
MaxChapter == 3
\* SpecWide requests the range 1..(NumThreads + ExtraChapters).
ExtraChapters == 1

\* ------------------------------------------------------ program constants
\* rayon::ThreadPoolBuilder::new().num_threads(8)
NumThreads == 8
\* let mut retries = 5;
InitialRetries == 5
\* let mut wait = 1;
InitialWait == 1
\* StatusCode::OK
StatusOK == 200
\* a status other than OK, as served for an id that does not exist
StatusNotFound == 404

\* --------------------------------------------------------- Option / Result
\* Option<T> and Result<T, _> are sequences of length at most one:
\* None / Err(_) is <<>>, Some(v) / Ok(v) is <<v>>.
None == <<>>
Some(v) == <<v>>
IsSome(o) == o # <<>>
Unwrap(o) == o[1]

Range(s) == {s[i] : i \in DOMAIN s}

VARIABLES
    start,      \* parse's argument start: u16
    end,        \* parse's argument end: u16
    skip,       \* the Skip predicate, as the set of chapters it is true of
    faulty,     \* the chapters whose network or page may misbehave in this run
    pool,       \* size of rayon's global pool; 0 while it is not built
    pc,         \* where parse is: "call", "par_iter", "returned", "panicked", "err"
    st,         \* per chapter: where its unit of work is
    retries,    \* per chapter: get's local `retries`
    wait,       \* per chapter: get's local `wait`
    attempts,   \* per chapter: reqwest::get calls made by the get call in progress
    sleeps,     \* per chapter: thread::sleep durations of the get call in progress
    html,       \* per chapter: the response received, None before
    out,        \* per chapter: what chapter() returned, None before
    fetched,    \* chapters for which a detail-page GET was issued
    extracted,  \* chapters for which field extraction was started
    fatal,      \* chapters whose get call ran out of retries
    disorder,   \* TRUE once a unit of work ended before one of a smaller chapter
    vec,        \* the Vec<Chapter> parse returns
    calls,      \* calls of chapter::parse made by the process so far
    returns,    \* calls of chapter::parse that returned Ok(vec)
    catalog,    \* the catalog: per page, the entries of its list markup
    hfaulty,    \* the pages whose fetch may fail in this run
    hpc,        \* where chapter_list::parse is: "idle", "par_iter", "returned", "panicked"
    hst,        \* per page: where its unit of work is
    hslept,     \* per page: the thread::sleep of list(), in ms; 0 before
    hlist,      \* per page: the Vec<ChapterList> its closure returned
    hlog,       \* the pages of the error! lines logged
    hgets,      \* the pages for which the GET was issued
    hdisorder,  \* TRUE once a page ended before one of a smaller number
    publish_map, \* the HashMap chapter_list::parse returns
    raw,        \* one entry of the list markup: its three elements
    entry       \* what number, likes and date make of raw, None before

\* What the catalog harvester and the extraction of one entry own.
hvars == <<catalog, hfaulty, hpc, hst, hslept, hlist, hlog, hgets, hdisorder,
           publish_map>>

evars == <<raw, entry>>

vars == <<start, end, skip, faulty, pool, pc, st, retries, wait, attempts,
          sleeps, html, out, fetched, extracted, fatal, disorder, vec,
          calls, returns, hvars, evars>>

\* ------------------------------------------------------------ the records
\* The placeholder of chapter.rs lines 85-95.
SentinelComment ==
    [username |-> "", replies |-> 0, upvotes |-> 0, downvotes |-> 0,
     contents |-> "", profile_type |-> "", auth_provider |-> "",
     country |-> "", post_date |-> ""]

\* A comment as comments::parse delivers it.
RealComment ==
    [username |-> "reader", replies |-> 1, upvotes |-> 3, downvotes |-> 1,
     contents |-> "nice", profile_type |-> "user", auth_provider |-> "mail",
     country |-> "US", post_date |-> "2022-11-20"]

\* What the server and the extractors deliver for one chapter: the status of
\* the response and the result of each extractor run on it.
Doc(status, likes, length, number, comments) ==
    [status |-> status, likes |-> likes, length |-> length,
     number |-> number, comments |-> comments]

CommentsOk == Some(<<2, 1, <<RealComment>>>>)

GoodDoc(ch) == Doc(StatusOK, Some(7), Some(3), Some(ch), CommentsOk)

\* The documents a chapter's fetch can deliver.
Docs(ch) ==
    IF ch \in faulty
    THEN { GoodDoc(ch),
           Doc(StatusOK, Some(7), Some(3), Some(ch + 1), CommentsOk),
           Doc(StatusNotFound, None, None, None, None),
           Doc(StatusOK, None, Some(3), Some(ch), CommentsOk),
           Doc(StatusOK, Some(7), None, Some(ch), CommentsOk),
           Doc(StatusOK, Some(7), Some(3), None, CommentsOk),
           Doc(StatusOK, Some(7), Some(3), Some(ch), None) }
    ELSE { GoodDoc(ch) }

\* The caller's classifiers: pure functions of (document, chapter number).
season_fn(doc, number) == <<"season", number>>
season_chapter_fn(doc, number) == <<"season_chapter", number>>
arc_fn(doc, number) == <<"arc", number>>

\* ------------------------------------------------------------------ parse
\* Mutant of Chapters: the half-open range start..end.
ChaptersExclusive(s, e) == [i \in 1..(IF e > s THEN e - s ELSE 0) |-> s + i - 1]

\* let chapters: Vec<_> = (start..=end).collect();
Chapters(s, e) == [i \in 1..(IF e >= s THEN e - s + 1 ELSE 0) |-> s + i - 1]

Ids == Range(Chapters(start, end))

\* skip(chapter)
Skip(ch) == ch \in skip

Terminal == {"emitted", "dropped", "panic_fetch", "panic_likes",
             "panic_length", "panic_number"}
Panicked == {"panic_fetch", "panic_likes", "panic_length", "panic_number"}

\* The units of work a pool thread is executing: a unit is taken by Start and
\* held, through its fetch and its extraction, until the step that ends it.
InProgress == {ch \in Ids : st[ch] \in {"fetching", "sleeping"}}

\* Mutant of ThreadFree: one unit of work more than the pool has threads.
ThreadFreeLax == Cardinality(InProgress) <= pool

\* A thread of the pool is free to take a unit of work.
\* Mutant of ThreadFree: a sleeping thread holds up the whole pool.
ThreadFreeNoSleeper ==
    /\ Cardinality(InProgress) < pool
    /\ \A ch \in Ids : st[ch] # "sleeping"

ThreadFree == Cardinality(InProgress) < pool

\* Mutant of Collect: each piece is put in front of the pieces after it.
RECURSIVE CollectReversed(_, _)
CollectReversed(chs, o) ==
    IF chs = <<>> THEN <<>>
    ELSE CollectReversed(Tail(chs), o) \o o[Head(chs)]

\* .filter_map(..).collect(): rayon keeps the order of the source vector.
RECURSIVE Collect(_, _)
Collect(chs, o) ==
    IF chs = <<>> THEN <<>>
    ELSE o[Head(chs)] \o Collect(Tail(chs), o)

TypeOK ==
    /\ pool \in 0..NumThreads
    /\ pc \in {"call", "par_iter", "returned", "panicked", "err"}
    /\ DOMAIN st = Ids

InitInputs(S, E, K, F) ==
    /\ start \in S
    /\ end \in E
    /\ skip \in K
    /\ faulty \in F
    /\ pool = 0
    /\ pc = "call"
    /\ st = [ch \in Ids |-> "pending"]
    /\ retries = [ch \in Ids |-> 0]
    /\ wait = [ch \in Ids |-> 0]
    /\ attempts = [ch \in Ids |-> 0]
    /\ sleeps = [ch \in Ids |-> <<>>]
    /\ html = [ch \in Ids |-> None]
    /\ out = [ch \in Ids |-> None]
    /\ fetched = {}
    /\ extracted = {}
    /\ fatal = {}
    /\ disorder = FALSE
    /\ vec = <<>>
    /\ calls = 1
    /\ returns = 0

\* chapter_list::parse is not called yet; C draws the catalog and F the
\* pages whose fetch may fail.
InitHarvest(C, F) ==
    /\ catalog \in C
    /\ hfaulty \in F
    /\ hpc = "idle"
    /\ hst = [p \in 1..Len(catalog) |-> "pending"]
    /\ hslept = [p \in 1..Len(catalog) |-> 0]
    /\ hlist = [p \in 1..Len(catalog) |-> <<>>]
    /\ hlog = {}
    /\ hgets = {}
    /\ hdisorder = FALSE
    /\ publish_map = <<>>

\* An entry none of whose three selectors matches.
NoRaw == [number |-> None, likes |-> None, date |-> None]

\* R draws the entry to extract.
InitEntry(R) == raw \in R /\ entry = None

\* The Skip predicates drawn: true of no chapter, or of exactly one.
Skips == {{}} \cup {{ch} : ch \in 1..MaxChapter}

\* Every range within 1..MaxChapter (an empty one when start > end), every
\* predicate of Skips, and a site where every chapter may misbehave.
Init ==
    /\ InitInputs(1..MaxChapter, 1..MaxChapter, Skips, {1..MaxChapter})
    /\ InitHarvest({<<>>}, {{}})
    /\ InitEntry({NoRaw})

\* Mutant of BuildGlobal: the error of build_global is dropped and the
\* call goes on with the pool there is.
BuildGlobalLenient ==
    /\ pc = "call"
    /\ hpc \in {"idle", "returned"}
    /\ pool' = IF pool = 0 THEN NumThreads ELSE pool
    /\ pc' = "par_iter"
    /\ UNCHANGED <<start, end, skip, faulty, st, retries, wait, attempts,
                   sleeps, html, out, fetched, extracted, fatal, disorder, vec>>
    /\ UNCHANGED <<calls, returns, hvars, evars>>

\* rayon::ThreadPoolBuilder::new().num_threads(8).build_global()
\*     .context("Couldn't create thread pool")?;
\* The caller is one thread: it is not inside chapter_list::parse, and a
\* panic of that call ended the process.
BuildGlobal ==
    /\ pc = "call"
    /\ hpc \in {"idle", "returned"}
    /\ IF pool = 0
       THEN pool' = NumThreads /\ pc' = "par_iter"
       ELSE pool' = pool /\ pc' = "err"
    /\ UNCHANGED <<start, end, skip, faulty, st, retries, wait, attempts,
                   sleeps, html, out, fetched, extracted, fatal, disorder, vec>>
    /\ UNCHANGED <<calls, returns, hvars, evars>>

\* Mutant of MayRetry: one retry more than the budget.
MayRetryOnceMore(r) == r >= 0

\* Err(_) => if retries > 0 { .. } else { panic!(..) }
MayRetry(r) == r > 0

\* Mutant of NextWait: the delay grows by one second instead of doubling.
NextWaitLinear(w) == w + 1

\* wait *= 2;
NextWait(w) == w * 2

\* Mutant of Exhaust: the exhausted fetch is taken for a chapter to drop.
ExhaustSwallowed(ch) ==
    /\ fatal' = fatal \cup {ch}
    /\ st' = [st EXCEPT ![ch] = "dropped"]

\* panic!("Cannot connect. Check URL: {}", url): the unit of work unwinds.
Exhaust(ch) ==
    /\ fatal' = fatal \cup {ch}
    /\ st' = [st EXCEPT ![ch] = "panic_fetch"]

\* A unit of work that ends now ends before one of a smaller chapter.
EndsEarly(ch) == \E c \in Ids : c < ch /\ st[c] \notin Terminal

\* A free pool thread takes chapter ch: chapter() builds the url and enters
\* get, which sets its locals.
Start(ch) ==
    /\ pc = "par_iter"
    /\ st[ch] = "pending"
    /\ ThreadFree
    /\ st' = [st EXCEPT ![ch] = "fetching"]
    /\ retries' = [retries EXCEPT ![ch] = InitialRetries]
    /\ wait' = [wait EXCEPT ![ch] = InitialWait]
    /\ UNCHANGED <<start, end, skip, faulty, pool, pc, attempts, sleeps,
                   html, out, fetched, extracted, fatal, disorder, vec>>
    /\ UNCHANGED <<calls, returns, hvars, evars>>

\* reqwest::get(url).await is Err(_): one retry is spent and the thread goes
\* to sleep, or the budget is gone and get panics.
GetErr(ch) ==
    /\ st[ch] = "fetching"
    /\ ch \in faulty
    /\ attempts' = [attempts EXCEPT ![ch] = @ + 1]
    /\ fetched' = fetched \cup {ch}
    /\ IF MayRetry(retries[ch])
       THEN /\ retries' = [retries EXCEPT ![ch] = @ - 1]
            /\ st' = [st EXCEPT ![ch] = "sleeping"]
            /\ UNCHANGED <<fatal, disorder>>
       ELSE /\ retries' = retries
            /\ Exhaust(ch)
            /\ disorder' = (disorder \/ EndsEarly(ch))
    /\ UNCHANGED <<start, end, skip, faulty, pool, pc, wait, sleeps, html,
                   out, extracted, vec>>
    /\ UNCHANGED <<calls, returns, hvars, evars>>

\* thread::sleep(Duration::from_secs(wait)) is over; wait *= 2; loop again.
Wake(ch) ==
    /\ st[ch] = "sleeping"
    /\ sleeps' = [sleeps EXCEPT ![ch] = Append(@, wait[ch])]
    /\ wait' = [wait EXCEPT ![ch] = NextWait(@)]
    /\ st' = [st EXCEPT ![ch] = "fetching"]
    /\ UNCHANGED <<start, end, skip, faulty, pool, pc, retries, attempts,
                   html, out, fetched, extracted, fatal, disorder, vec>>
    /\ UNCHANGED <<calls, returns, hvars, evars>>

\* Mutants of Dropped: one of the two tests is missing.
DroppedStatusOnly(ch, doc) == doc.status # StatusOK
DroppedSkipOnly(ch, doc) == Skip(ch)

\* if response.status() != StatusCode::OK || skip(chapter) { return None; }
Dropped(ch, doc) == doc.status # StatusOK \/ Skip(ch)

\* Mutant of CommentsOrSentinel: no placeholder, an empty vector.
CommentsOrEmpty(c) ==
    IF IsSome(c) THEN Unwrap(c) ELSE <<0, 0, <<>>>>

\* match comments::parse(id, number) { Ok(tup) => tup, Err(err) => (0, 0, vec![..]) }
CommentsOrSentinel(c) ==
    IF IsSome(c) THEN Unwrap(c) ELSE <<0, 0, <<SentinelComment>>>>

\* let result = Chapter { number: chapter, .. };
Record(ch, doc) ==
    LET number == Unwrap(doc.number)
        tup == CommentsOrSentinel(doc.comments)
    IN  [number |-> ch,
         likes |-> Unwrap(doc.likes),
         length |-> Unwrap(doc.length),
         comments |-> tup[1],
         replies |-> tup[2],
         season |-> season_fn(doc, number),
         season_chapter |-> season_chapter_fn(doc, number),
         arc |-> arc_fn(doc, number),
         user_comments |-> tup[3],
         published |-> None]

\* Mutant of Outcome: a required field that does not parse drops the chapter.
OutcomeLenient(ch, doc) ==
    IF Dropped(ch, doc) THEN "dropped"
    ELSE IF ~IsSome(doc.likes) \/ ~IsSome(doc.length) \/ ~IsSome(doc.number)
         THEN "dropped"
    ELSE "emitted"

\* How chapter() ends once it holds the response: the early return, the
\* three unwrap_or_else panics in source order, or Some(result).
Outcome(ch, doc) ==
    IF Dropped(ch, doc) THEN "dropped"
    ELSE IF ~IsSome(doc.likes) THEN "panic_likes"
    ELSE IF ~IsSome(doc.length) THEN "panic_length"
    ELSE IF ~IsSome(doc.number) THEN "panic_number"
    ELSE "emitted"

\* The thread runs the rest of chapter() on the response to its end
\* (lines 59-117); get's locals are gone.
Deliver(ch, doc) ==
    LET o == Outcome(ch, doc)
    IN  /\ html' = [html EXCEPT ![ch] = Some(doc)]
        /\ st' = [st EXCEPT ![ch] = o]
        /\ out' = [out EXCEPT ![ch] =
                     IF o = "emitted" THEN Some(Record(ch, doc)) ELSE None]
        /\ extracted' = IF o = "dropped" THEN extracted
                        ELSE extracted \cup {ch}
        /\ fetched' = fetched \cup {ch}
        /\ retries' = [retries EXCEPT ![ch] = 0]
        /\ wait' = [wait EXCEPT ![ch] = 0]
        /\ attempts' = [attempts EXCEPT ![ch] = 0]
        /\ sleeps' = [sleeps EXCEPT ![ch] = <<>>]
        /\ disorder' = (disorder \/ EndsEarly(ch))
        /\ fatal' = fatal

\* Mutant of Respond: a response whose status is not OK is handled like a
\* transport failure.
RespondCheckingStatus(ch, doc) ==
    IF doc.status = StatusOK
    THEN Deliver(ch, doc)
    ELSE /\ html' = [html EXCEPT ![ch] = Some(doc)]
         /\ attempts' = [attempts EXCEPT ![ch] = @ + 1]
         /\ fetched' = fetched \cup {ch}
         /\ IF retries[ch] > 0
            THEN /\ retries' = [retries EXCEPT ![ch] = @ - 1]
                 /\ st' = [st EXCEPT ![ch] = "sleeping"]
                 /\ fatal' = fatal
            ELSE /\ retries' = retries
                 /\ st' = [st EXCEPT ![ch] = "panic_fetch"]
                 /\ fatal' = fatal \cup {ch}
         /\ UNCHANGED <<wait, sleeps, out, extracted, disorder>>

\* Ok(ok) => break ok; .. Ok(response): the response is returned as it is,
\* whatever its status.
Respond(ch, doc) == Deliver(ch, doc)

\* reqwest::get(url).await is Ok(ok): get returns the response and the
\* thread goes on with chapter().
GetOk(ch) ==
    /\ st[ch] = "fetching"
    /\ \E doc \in Docs(ch) : Respond(ch, doc)
    /\ UNCHANGED <<start, end, skip, faulty, pool, pc, vec>>
    /\ UNCHANGED <<calls, returns, hvars, evars>>

\* The parallel iteration is over: no unit of work is running, and either
\* every unit has ended and none panicked, so collect() returns and parse
\* returns Ok(vec), or a unit panicked and rayon resumes the panic in parse.
\* rayon runs both sides of every join whatever panics, so the units of the
\* other pieces of the range still run after a panic; only the units that
\* follow the panicking one in its own sequential piece are never run.
Return ==
    /\ pc = "par_iter"
    /\ IF \E ch \in Ids : st[ch] \in Panicked
       THEN /\ \A ch \in Ids : st[ch] \in Terminal \cup {"pending"}
            /\ pc' = "panicked" /\ vec' = vec /\ returns' = returns
       ELSE /\ \A ch \in Ids : st[ch] \in Terminal
            /\ pc' = "returned" /\ vec' = Collect(Chapters(start, end), out)
            /\ returns' = returns + 1
    /\ UNCHANGED <<start, end, skip, faulty, pool, st, retries, wait,
                   attempts, sleeps, html, out, fetched, extracted, fatal,
                   disorder>>
    /\ UNCHANGED <<calls, hvars, evars>>

Next ==
    \/ BuildGlobal
    \/ \E ch \in Ids : Start(ch)
    \/ \E ch \in Ids : GetErr(ch)
    \/ \E ch \in Ids : Wake(ch)
    \/ \E ch \in Ids : GetOk(ch)
    \/ Return

Spec == Init /\ [][Next]_vars

\* A range one chapter larger than the pool or more, so that the pool's
\* size decides how many units of work run at once.
InitWide ==
    /\ InitInputs({1}, {NumThreads + ExtraChapters}, {{}}, {{1}})
    /\ InitHarvest({<<>>}, {{}})
    /\ InitEntry({NoRaw})

SpecWide == InitWide /\ [][Next]_vars

(***************************************************************************)
(* The catalog pages (chapter_list.rs).  A text is the sequence of its     *)
(* characters.  An element of the list markup is None when its selector    *)
(* matches nothing and else the sequence of its text nodes.                *)
(***************************************************************************)
Digits == <<"0", "1", "2", "3", "4", "5", "6", "7", "8", "9">>

IsDigit(c) == \E i \in 1..Len(Digits) : Digits[i] = c

DigitValue(c) == (CHOOSE i \in 1..Len(Digits) : Digits[i] = c) - 1

\* &s[..k] and &s[k..], k cut down to the length of s.
Take(s, k) == SubSeq(s, 1, IF k < Len(s) THEN k ELSE Len(s))
Drop(s, k) == IF k >= Len(s) THEN <<>> ELSE SubSeq(s, k + 1, Len(s))

\* str::replace(c, ""): every occurrence of c is removed.
Replace(s, c) == SelectSeq(s, LAMBDA x : x # c)

RECURSIVE StripZeros(_)
StripZeros(s) ==
    IF Len(s) > 1 /\ s[1] = "0" THEN StripZeros(Tail(s)) ELSE s

\* a and b are digit texts without leading zeros: a denotes more than b.
Exceeds(a, b) ==
    \/ Len(a) > Len(b)
    \/ /\ Len(a) = Len(b)
       /\ \E i \in 1..Len(a) :
            /\ DigitValue(a[i]) > DigitValue(b[i])
            /\ \A j \in 1..(i - 1) : a[j] = b[j]

RECURSIVE Value(_)
Value(s) ==
    IF s = <<>> THEN 0
    ELSE 10 * Value(SubSeq(s, 1, Len(s) - 1)) + DigitValue(s[Len(s)])

U16Max == <<"6", "5", "5", "3", "5">>
U32Max == <<"4", "2", "9", "4", "9", "6", "7", "2", "9", "5">>

\* str::parse for an unsigned integer whose largest value has the digits
\* max: an optional '+', then one digit or more and nothing else; a value
\* above max is an error.
ParseUnsigned(s, max) ==
    LET body == IF s # <<>> /\ s[1] = "+" THEN Tail(s) ELSE s
    IN  IF body = <<>> \/ \E i \in 1..Len(body) : ~IsDigit(body[i])
        THEN None
        ELSE IF Exceeds(StripZeros(body), max)
             THEN None
             ELSE Some(Value(body))

\* number(): the first text node of span.tx with every '#' removed, as u16.
number(el) ==
    IF el = None \/ Unwrap(el) = <<>> THEN None
    ELSE ParseUnsigned(Replace(Unwrap(el)[1], "#"), U16Max)

\* likes(): the second text node of the like area with every ',' removed,
\* as u32.  Indexing [1] panics when there are fewer than two text nodes.
LikesPanics(el) == el # None /\ Len(Unwrap(el)) < 2

likes(el) ==
    IF el = None THEN None
    ELSE ParseUnsigned(Replace(Unwrap(el)[2], ","), U32Max)

MonthNames == << <<"J","a","n">>, <<"F","e","b">>, <<"M","a","r">>,
                 <<"A","p","r">>, <<"M","a","y">>, <<"J","u","n">>,
                 <<"J","u","l">>, <<"A","u","g">>, <<"S","e","p">>,
                 <<"O","c","t">>, <<"N","o","v">>, <<"D","e","c">> >>

\* Mutant of Month: the month counted from 0, as chrono's month0.
MonthZeroBased(s) ==
    IF \E m \in 1..Len(MonthNames) : Take(s, 3) = MonthNames[m]
    THEN Some((CHOOSE m \in 1..Len(MonthNames) :
                   Take(s, 3) = MonthNames[m]) - 1)
    ELSE None

\* %b: the month whose short name the text begins with, None if none.
Month(s) ==
    IF \E m \in 1..Len(MonthNames) : Take(s, 3) = MonthNames[m]
    THEN Some(CHOOSE m \in 1..Len(MonthNames) :
                  Take(s, 3) = MonthNames[m])
    ELSE None

RECURSIVE TrimStart(_)
TrimStart(s) == IF s # <<>> /\ s[1] = " " THEN TrimStart(Tail(s)) ELSE s

\* The longest prefix of s of digits only, width characters at most.
RECURSIVE LeadingDigits(_, _)
LeadingDigits(s, width) ==
    IF width = 0 \/ s = <<>> \/ ~IsDigit(s[1]) THEN <<>>
    ELSE <<s[1]>> \o LeadingDigits(Tail(s), width - 1)

IsLeap(y) == (y % 4 = 0 /\ y % 100 # 0) \/ y % 400 = 0

DaysIn(m, y) ==
    IF m = 2 THEN (IF IsLeap(y) THEN 29 ELSE 28)
    ELSE IF m \in {4, 6, 9, 11} THEN 30 ELSE 31

\* NaiveDate::parse_from_str(s, "%b %e, %Y"): the short month name, white
\* space, a day of one or two digits, a comma, white space, a year of one to
\* four digits and nothing after it; the three must be a date of the
\* calendar.
ParseDate(s) ==
    LET m    == Month(s)
        s1   == TrimStart(Drop(s, 3))
        dd   == LeadingDigits(s1, 2)
        s2   == Drop(s1, Len(dd))
        s3   == TrimStart(Drop(s2, 1))
        yyyy == LeadingDigits(s3, 4)
    IN  IF \/ m = None
           \/ dd = <<>>
           \/ s2 = <<>>
           \/ s2[1] # ","
           \/ yyyy = <<>>
           \/ Len(yyyy) # Len(s3)
        THEN None
        ELSE LET d == Value(dd)
                 y == Value(yyyy)
             IN  IF d >= 1 /\ d <= DaysIn(Unwrap(m), y)
                 THEN Some([year |-> y, month |-> Unwrap(m), day |-> d])
                 ELSE None

\* The decimal digits of n, padded with zeros on the left to width.
RECURSIVE Padded(_, _)
Padded(n, width) ==
    IF width = 0 THEN <<>>
    ELSE Padded(n \div 10, width - 1) \o <<Digits[(n % 10) + 1]>>

\* format("%F"): YYYY-MM-DD.
FormatISO(d) ==
    Padded(d.year, 4) \o <<"-">> \o Padded(d.month, 2) \o <<"-">>
        \o Padded(d.day, 2)

\* date(): the first text node of span.date, parsed and formatted.
\* Indexing [0] panics when the element has no text node.
DatePanics(el) == el # None /\ Unwrap(el) = <<>>

date(el) ==
    IF el = None THEN None
    ELSE LET parsed == ParseDate(Unwrap(el)[1])
         IN  IF parsed = None THEN None ELSE Some(FormatISO(Unwrap(parsed)))

\* What number, likes and date make of one li, in the order chapter() calls
\* them: each `?` returns the first error, an index out of bounds panics.
EntryOutcome(li) ==
    IF number(li.number) = None THEN "err"
    ELSE IF LikesPanics(li.likes) THEN "panic"
    ELSE IF likes(li.likes) = None THEN "err"
    ELSE IF DatePanics(li.date) THEN "panic"
    ELSE IF date(li.date) = None THEN "err"
    ELSE "ok"

\* The three results, None for one that failed or was not reached.
Extract(li) ==
    LET n == number(li.number)
        l == IF n = None \/ LikesPanics(li.likes) THEN None ELSE likes(li.likes)
        d == IF l = None \/ DatePanics(li.date) THEN None ELSE date(li.date)
    IN  [outcome |-> EntryOutcome(li), chapter |-> n, likes |-> l, date |-> d]

\* ChapterList { chapter, likes, date }
ChapterList(li) ==
    [chapter |-> Unwrap(number(li.number)),
     likes   |-> Unwrap(likes(li.likes)),
     date    |-> Unwrap(date(li.date))]

\* ---------------------------------------------- the entries drawn as input
\* The decimal digits of n.
RECURSIVE Decimal(_)
Decimal(n) ==
    IF n < 10 THEN <<Digits[n + 1]>>
    ELSE Decimal(n \div 10) \o <<Digits[(n % 10) + 1]>>

\* The digits of n in groups of three with ',' between them.
RECURSIVE Grouped(_)
Grouped(n) ==
    IF n < 1000 THEN Decimal(n)
    ELSE Grouped(n \div 1000) \o <<",">> \o Padded(n % 1000, 3)

\* <span class="tx">#24</span>
RenderNumber(n) == Some(<< <<"#">> \o Decimal(n) >>)

\* <span class="like_area _likeitArea"><em ..>like</em>7,779</span>
Like == <<"l", "i", "k", "e">>
RenderLikes(n) == Some(<<Like, Grouped(n)>>)

\* <span class="date">Nov 20, 2022</span>; pad: a day below 10 is written
\* with a space before it, as %e writes it.
RenderDate(m, d, y, pad) ==
    Some(<< MonthNames[m] \o <<" ">>
            \o (IF pad /\ d < 10 THEN <<" ">> ELSE <<>>)
            \o Decimal(d) \o <<",", " ">> \o Padded(y, 4) >>)

Numbers == {0, 7, 24, 65535, 65536}
LikeCounts == {0, 999, 7779, 1234567, 2147483647}
Days == {1, 9, 20, 28, 29, 30, 31}
Years == {2022, 2024}

NumberElements ==
    {RenderNumber(n) : n \in Numbers}
        \cup {None, Some(<<>>), Some(<< <<"#">> >>), Some(<< <<"2", "4">> >>),
              Some(<< <<"2", "#", "4">> >>), Some(<< <<"#", "+", "7">> >>),
              Some(<< <<"#", "-", "1">> >>), Some(<< <<"#", "2", "a">> >>)}

LikesElements ==
    {RenderLikes(n) : n \in LikeCounts}
        \cup {None, Some(<<>>), Some(<<Like>>), Some(<<Like, <<>> >>),
              Some(<<Like, <<"7", ".", "7", "K">> >>),
              Some(<<Like, <<"7", "7", "7", "9">> >>),
              Some(<<Like, <<"4", ",", "2", "9", "4", ",", "9", "6", "7",
                             ",", "2", "9", "6">> >>)}

DateElements ==
    {RenderDate(m, d, y, pad) :
        m \in 1..Len(MonthNames), d \in Days, y \in Years, pad \in BOOLEAN}
        \cup {None, Some(<<>>), Some(<< <<>> >>),
              Some(<< <<"2","0","2","2","-","1","1","-","2","0">> >>),
              Some(<< <<"N","o","v"," ","2","0"," ","2","0","2","2">> >>),
              Some(<< <<"F","o","o"," ","2","0",","," ","2","0","2","2">> >>),
              Some(<< <<"N","o","v"," ","0",","," ","2","0","2","2">> >>)}

RawEntries ==
    [number : NumberElements, likes : LikesElements, date : DateElements]

\* chapter() reaches one li of the page and extracts it.
ExtractEntry ==
    /\ entry = None
    /\ entry' = Some(Extract(raw))
    /\ UNCHANGED <<start, end, skip, faulty, pool, pc, st, retries, wait,
                   attempts, sleeps, html, out, fetched, extracted, fatal,
                   disorder, vec, calls, returns, hvars, raw>>

InitExtraction ==
    /\ InitInputs({1}, {1}, {{}}, {{}})
    /\ InitHarvest({<<>>}, {{}})
    /\ InitEntry(RawEntries)

NextExtraction == ExtractEntry

SpecExtraction == InitExtraction /\ [][NextExtraction]_vars

(***************************************************************************)
(* chapter_list::parse, the catalog harvester.  One unit of work is one    *)
(* page: list() fetches it, sleeps, reads the body and extracts its        *)
(* entries.  The fetch is one step, as for the detail pages; the client it *)
(* uses is seen through its result only, Ok(response) or Err.              *)
(***************************************************************************)
\* The most pages a catalog drawn has.
MaxPage == 2

\* The most threads rayon gives the global pool when nobody configured it
\* (it takes the number of logical CPUs of the machine).
MaxCpus == 2

\* thread::sleep(Duration::from_millis(500 * rand))
DelayUnit == 500

\* rng.gen_range(1..=3)
Rands == 1..3

\* chapter(): the ChapterList of every li in document order, or the first
\* failure met.
RECURSIVE chapter(_)
chapter(page) ==
    IF page = <<>> THEN [outcome |-> "ok", list |-> <<>>]
    ELSE LET o == EntryOutcome(Head(page))
         IN  IF o # "ok" THEN [outcome |-> o, list |-> <<>>]
             ELSE LET rest == chapter(Tail(page))
                  IN  IF rest.outcome # "ok" THEN rest
                      ELSE [outcome |-> "ok",
                            list |-> <<ChapterList(Head(page))>> \o rest.list]

\* An entry of chapter n published on November d, 2022.
PageEntry(n, d) ==
    [number |-> RenderNumber(n), likes |-> RenderLikes(7779),
     date |-> RenderDate(11, d, 2022, FALSE)]

\* An entry whose date is not one of the calendar.
BadEntry ==
    [number |-> RenderNumber(3), likes |-> RenderLikes(7779),
     date |-> RenderDate(11, 31, 2022, FALSE)]

\* The pages drawn: an empty list, chapter 1 with one date and with another,
\* two chapters, and a good entry followed by a bad one.
Pages ==
    { <<>>,
      <<PageEntry(1, 20)>>,
      <<PageEntry(1, 27)>>,
      <<PageEntry(2, 20), PageEntry(1, 13)>>,
      <<PageEntry(3, 20), BadEntry>> }

Catalogs == UNION {[1..n -> Pages] : n \in 1..MaxPage}

PageIds == 1..Len(catalog)

HPanicked == {p \in PageIds : hst[p] = "panic"}

\* A thread of the global pool is free to take a page.
HThreadFree == Cardinality({p \in PageIds : hst[p] = "sleeping"}) < pool

\* Mutant of Insert: the first date of an id is kept (entry().or_insert()).
InsertIfAbsent(map, e) ==
    [k \in DOMAIN map \cup {e.chapter} |->
        IF k \in DOMAIN map THEN map[k] ELSE e.date]

\* publish_map.insert(chapter.chapter, chapter.date)
Insert(map, e) ==
    [k \in DOMAIN map \cup {e.chapter} |->
        IF k = e.chapter THEN e.date ELSE map[k]]

\* for chapter in list { publish_map.insert(..) }
RECURSIVE InsertAll(_, _)
InsertAll(map, list) ==
    IF list = <<>> THEN map
    ELSE InsertAll(Insert(map, Head(list)), Tail(list))

\* .flatten().collect(): the lists of the pages p..Len(lists), in page order.
RECURSIVE Flatten(_, _)
Flatten(lists, p) ==
    IF p > Len(lists) THEN <<>> ELSE lists[p] \o Flatten(lists, p + 1)

\* The caller enters chapter_list::parse.  The first parallel iterator of
\* the process builds the global pool with rayon's default size when
\* nothing configured it before.
HarvestCall ==
    /\ hpc = "idle"
    /\ pc \in {"call", "returned", "err"}
    /\ hpc' = "par_iter"
    /\ IF pool = 0 THEN pool' \in 1..MaxCpus ELSE pool' = pool
    /\ UNCHANGED <<start, end, skip, faulty, pc, st, retries, wait,
                   attempts, sleeps, html, out, fetched, extracted, fatal,
                   disorder, vec, calls, returns, catalog, hfaulty, hst,
                   hslept, hlist, hlog, hgets, hdisorder, publish_map, evars>>

\* list() returned Err: the closure logs the page and unwraps the Err, which
\* panics.
ListFailed(p) ==
    /\ hst' = [hst EXCEPT ![p] = "panic"]
    /\ hlog' = hlog \cup {p}

\* A page ends while one of a smaller number has not ended.
HEndsEarly(p) == \E q \in PageIds : q < p /\ hst[q] \in {"pending", "sleeping"}

\* let response = BlockingReferClient::get(url)?; and, on Ok, the thread
\* enters thread::sleep.
ListGet(p) ==
    /\ hpc = "par_iter"
    /\ hst[p] = "pending"
    /\ HThreadFree
    /\ hgets' = hgets \cup {p}
    /\ \/ /\ hst' = [hst EXCEPT ![p] = "sleeping"]
          /\ UNCHANGED <<hlog, hdisorder>>
       \/ /\ p \in hfaulty
          /\ ListFailed(p)
          /\ hdisorder' = (hdisorder \/ HEndsEarly(p))
    /\ UNCHANGED <<start, end, skip, faulty, pool, pc, st, retries, wait,
                   attempts, sleeps, html, out, fetched, extracted, fatal,
                   disorder, vec, calls, returns, catalog, hfaulty, hpc,
                   hslept, hlist, publish_map, evars>>

\* The sleep of 500 * rand ms is over: response.text() and chapter(&html).
ListWake(p) ==
    /\ hst[p] = "sleeping"
    /\ \E rand \in Rands : hslept' = [hslept EXCEPT ![p] = DelayUnit * rand]
    /\ LET r == chapter(catalog[p])
       IN  \/ /\ r.outcome = "ok"
              /\ hst' = [hst EXCEPT ![p] = "done"]
              /\ hlist' = [hlist EXCEPT ![p] = r.list]
              /\ hlog' = hlog
           \/ /\ r.outcome = "err" \/ p \in hfaulty
              /\ ListFailed(p)
              /\ hlist' = hlist
           \/ /\ r.outcome = "panic"
              /\ hst' = [hst EXCEPT ![p] = "panic"]
              /\ UNCHANGED <<hlist, hlog>>
    /\ hdisorder' = (hdisorder \/ HEndsEarly(p))
    /\ UNCHANGED <<start, end, skip, faulty, pool, pc, st, retries, wait,
                   attempts, sleeps, html, out, fetched, extracted, fatal,
                   disorder, vec, calls, returns, catalog, hfaulty, hpc,
                   hgets, publish_map, evars>>

\* The parallel iteration is over.  A page panicked: the panic is resumed
\* in parse.  None did: the lists are flattened in page order, inserted one
\* after the other, and parse returns Ok(publish_map).
HarvestReturn ==
    /\ hpc = "par_iter"
    /\ IF HPanicked # {}
       THEN /\ \A p \in PageIds : hst[p] \in {"done", "panic", "pending"}
            /\ hpc' = "panicked"
            /\ publish_map' = publish_map
       ELSE /\ \A p \in PageIds : hst[p] = "done"
            /\ hpc' = "returned"
            /\ publish_map' = InsertAll(<<>>, Flatten(hlist, 1))
    /\ UNCHANGED <<start, end, skip, faulty, pool, pc, st, retries, wait,
                   attempts, sleeps, html, out, fetched, extracted, fatal,
                   disorder, vec, calls, returns, catalog, hfaulty, hst,
                   hslept, hlist, hlog, hgets, hdisorder, evars>>

InitHarvester ==
    /\ InitInputs({1}, {1}, {{}}, {{}})
    /\ InitHarvest(Catalogs, {{}, {1}})
    /\ InitEntry({NoRaw})

NextHarvester ==
    \/ HarvestCall
    \/ \E p \in PageIds : ListGet(p)
    \/ \E p \in PageIds : ListWake(p)
    \/ HarvestReturn

SpecHarvester == InitHarvester /\ [][NextHarvester]_vars

(***************************************************************************)
(* The process: its one caller thread calls chapter::parse and             *)
(* chapter_list::parse one after the other, in any order, and may call     *)
(* chapter::parse again after it returned.                                 *)
(***************************************************************************)
\* The most calls of chapter::parse a process drawn makes.
MaxCalls == 2

\* chapter::parse is called again, with the same arguments: the locals of
\* the call are new, the global pool is the process's.
CallAgain ==
    /\ pc \in {"returned", "err"}
    /\ hpc \in {"idle", "returned"}
    /\ calls < MaxCalls
    /\ calls' = calls + 1
    /\ pc' = "call"
    /\ st' = [ch \in Ids |-> "pending"]
    /\ retries' = [ch \in Ids |-> 0]
    /\ wait' = [ch \in Ids |-> 0]
    /\ attempts' = [ch \in Ids |-> 0]
    /\ sleeps' = [ch \in Ids |-> <<>>]
    /\ html' = [ch \in Ids |-> None]
    /\ out' = [ch \in Ids |-> None]
    /\ fetched' = {}
    /\ extracted' = {}
    /\ fatal' = {}
    /\ disorder' = FALSE
    /\ vec' = <<>>
    /\ UNCHANGED <<start, end, skip, faulty, pool, returns, hvars, evars>>

\* Chapters 1 and 2, the first on a network that may fail, and a catalog.
InitProcess ==
    /\ InitInputs({1}, {2}, {{}}, {{1}})
    /\ InitHarvest(Catalogs, {{}})
    /\ InitEntry({NoRaw})

NextProcess ==
    \/ BuildGlobal
    \/ \E ch \in Ids : Start(ch)
    \/ \E ch \in Ids : GetErr(ch)
    \/ \E ch \in Ids : Wake(ch)
    \/ \E ch \in Ids : GetOk(ch)
    \/ Return
    \/ CallAgain
    \/ HarvestCall
    \/ \E p \in PageIds : ListGet(p)
    \/ \E p \in PageIds : ListWake(p)
    \/ HarvestReturn

SpecProcess == InitProcess /\ [][NextProcess]_vars

\* ------------------------------------------------------------- the claims
Ascending(v) == \A i, j \in 1..Len(v) : i < j => v[i].number < v[j].number

\* C1: whatever the order in which the workers end, the sequence parse
\* returns is strictly ascending by number, so no number appears twice.
C1_Ascending == pc = "returned" => Ascending(vec)

\* Workers ended out of order and parse returned at least two records.
C1_Witness == pc = "returned" /\ disorder /\ Len(vec) >= 2

\* The response chapter ch's fetch delivered, if it has one.
HasStatus(ch, s) == IsSome(html[ch]) /\ Unwrap(html[ch]).status = s
RequiredOk(ch) ==
    /\ IsSome(html[ch])
    /\ IsSome(Unwrap(html[ch]).likes)
    /\ IsSome(Unwrap(html[ch]).length)
    /\ IsSome(Unwrap(html[ch]).number)

C3_FatalSurfaces ==
    /\ \A ch \in fatal : st[ch] # "dropped" /\ pc # "returned"
    /\ (pc \in {"returned", "panicked"} /\ fatal # {}) => pc = "panicked"
    /\ pc = "returned" => Ascending(vec) /\ Len(vec) <= Len(Chapters(start, end))

\* One chapter's fetch was fatal, another chapter was emitted, parse panicked.
C3_Witness ==
    /\ pc = "panicked" /\ fatal # {}
    /\ \E ch \in DOMAIN st : st[ch] = "emitted"

IsPrefix(s, t) == Len(s) <= Len(t) /\ \A i \in 1..Len(s) : s[i] = t[i]

\* C4: one get call sleeps 1, 2, 4, 8, 16 seconds in that order, one sleep
\* before each retry, at most five retries, and is fatal only after all five.
C4_Backoff ==
    \A ch \in DOMAIN st :
        /\ IsPrefix(sleeps[ch], <<1, 2, 4, 8, 16>>)
        /\ st[ch] = "fetching" => attempts[ch] = Len(sleeps[ch])
        /\ st[ch] = "sleeping" => attempts[ch] = Len(sleeps[ch]) + 1 /\ wait[ch] <= 16
        /\ ch \in fatal => sleeps[ch] = <<1, 2, 4, 8, 16>>

\* A call whose every GET failed, after its last sleep.
C4_Witness == \E ch \in fatal : Len(sleeps[ch]) = 5 /\ st[ch] = "panic_fetch"

\* C5 as amended: one get call issues at most 6 GETs, the first and five
\* retries, and it is the sixth failure in a row that makes the call fatal.
C5_SixAttempts ==
    \A ch \in DOMAIN st :
        /\ attempts[ch] <= 6
        /\ st[ch] = "fetching" => attempts[ch] <= 5
        /\ ch \in fatal <=> attempts[ch] = 6

\* A call that became fatal, on its sixth GET.
C5_Witness == \E ch \in fatal : attempts[ch] = 6 /\ retries[ch] = 0

\* C5 as stated: at most 5 GETs in one call, the fifth failure is fatal.
C5_FiveAttempts ==
    \A ch \in DOMAIN st :
        /\ attempts[ch] <= 5
        /\ (attempts[ch] = 5 /\ st[ch] # "fetching") => ch \in fatal

\* C6: never more than 8 units of work are in progress at once.
C6_PoolBound == Cardinality(InProgress) <= 8

\* Eight units in progress while a ninth chapter waits for a thread.
C6_Witness ==
    /\ Cardinality(InProgress) = 8
    /\ \E ch \in DOMAIN st : st[ch] = "pending"

\* C7: no record of a skipped chapter is returned, and the records of the
\* other chapters are all there in ascending order.
C7_SkippedAbsent ==
    /\ \A ch \in DOMAIN st : Skip(ch) => out[ch] = None
    /\ pc = "returned" =>
         /\ \A i \in 1..Len(vec) : ~Skip(vec[i].number)
         /\ \A ch \in DOMAIN st :
              st[ch] = "emitted" => \E i \in 1..Len(vec) : vec[i].number = ch
         /\ Ascending(vec)

\* Range [1,3] with 2 skipped: the records of 1 and 3, in that order.
C7_Witness ==
    /\ pc = "returned" /\ start = 1 /\ end = 3 /\ skip = {2}
    /\ HasStatus(2, StatusOK) /\ RequiredOk(2)
    /\ Len(vec) = 2 /\ vec[1].number = 1 /\ vec[2].number = 3

\* C8 as stated: no detail-page GET is ever issued for a skipped chapter.
C8_NoGetForSkipped == \A ch \in fetched : ~Skip(ch)

\* C9: a chapter whose response has a status other than OK is dropped: no
\* record, no extraction, no panic; the other chapters are still returned.
C9_NonSuccessDropped ==
    \A ch \in DOMAIN st :
        (IsSome(html[ch]) /\ ~HasStatus(ch, StatusOK)) =>
            /\ st[ch] = "dropped"
            /\ out[ch] = None
            /\ ch \notin extracted
            /\ pc = "returned" => \A i \in 1..Len(vec) : vec[i].number # ch

\* A chapter answered 404, parse returned, and another chapter's record is there.
C9_Witness ==
    /\ pc = "returned" /\ Len(vec) >= 1
    /\ \E ch \in DOMAIN st : HasStatus(ch, StatusNotFound) /\ ~Skip(ch)

\* Comment extraction failed on chapter ch's page and nothing else did.
CommentsFailedOnly(ch) ==
    /\ HasStatus(ch, StatusOK) /\ ~Skip(ch) /\ RequiredOk(ch)
    /\ ~IsSome(Unwrap(html[ch]).comments)

IsSentinel(c) ==
    /\ c.username = "" /\ c.contents = "" /\ c.profile_type = ""
    /\ c.auth_provider = "" /\ c.country = "" /\ c.post_date = ""
    /\ c.replies = 0 /\ c.upvotes = 0 /\ c.downvotes = 0

\* C10: when only comment extraction fails, the chapter's record is emitted
\* with comments 0, replies 0 and exactly one placeholder comment, and the
\* run returns it like any other record.
C10_CommentsDegraded ==
    \A ch \in DOMAIN st :
        CommentsFailedOnly(ch) =>
            /\ st[ch] = "emitted"
            /\ IsSome(out[ch])
            /\ Unwrap(out[ch]).comments = 0
            /\ Unwrap(out[ch]).replies = 0
            /\ Len(Unwrap(out[ch]).user_comments) = 1
            /\ IsSentinel(Unwrap(out[ch]).user_comments[1])
            /\ pc = "returned" => \E i \in 1..Len(vec) : vec[i] = Unwrap(out[ch])

\* Two records returned: one with the placeholder, one with real comments.
C10_Witness ==
    /\ pc = "returned"
    /\ \E ch \in DOMAIN st : CommentsFailedOnly(ch)
    /\ \E i \in 1..Len(vec) : vec[i].comments > 0

\* A required field did not parse on the OK page of the unskipped chapter ch.
RequiredFailed(ch) == HasStatus(ch, StatusOK) /\ ~Skip(ch) /\ ~RequiredOk(ch)

\* C11: when a required field (likes, length, chapter number) does not parse
\* for a fetched, unskipped chapter, its worker panics: no record is emitted
\* for it and parse never returns a result in which it is merely missing.
C11_RequiredFailureVisible ==
    \A ch \in DOMAIN st :
        RequiredFailed(ch) =>
            /\ st[ch] \in {"panic_likes", "panic_length", "panic_number"}
            /\ out[ch] = None
            /\ pc # "returned"

\* The run ended in the panic of a chapter whose likes did not parse, after
\* another chapter's record had been emitted.
C11_Witness ==
    /\ pc = "panicked"
    /\ \E ch \in DOMAIN st : RequiredFailed(ch) /\ st[ch] = "panic_likes"
    /\ \E ch \in DOMAIN st : st[ch] = "emitted"

\* C16: get returns the first response it receives, whatever its status:
\* the call has then ended, not fatally, so no GET and no sleep follow it.
C16_FirstResponseReturned ==
    \A ch \in DOMAIN st :
        IsSome(html[ch]) =>
            /\ st[ch] \in Terminal \ {"panic_fetch"}
            /\ ch \notin fatal
            /\ attempts[ch] = 0 /\ sleeps[ch] = <<>>

\* A response with a status other than OK was returned to chapter(), which
\* dropped the chapter; a fetch of another chapter is still retrying.
C16_Witness ==
    \E ch \in DOMAIN st :
        /\ HasStatus(ch, StatusNotFound) /\ st[ch] = "dropped" /\ ch \in fetched
        /\ \E c \in DOMAIN st : st[c] = "sleeping"

\* C18 as stated: once a fetch has run out of retries, no unit of work that
\* has not started yet is started.
C18_NoStartAfterFatal ==
    [][fatal # {} =>
         \A ch \in DOMAIN st : st[ch] = "pending" => st'[ch] = "pending"]_vars

\* The entry of the tests: #24, like 7,779, Nov 20, 2022.
ExampleEntry ==
    [number |-> Some(<< <<"#", "2", "4">> >>),
     likes  |-> Some(<< Like, <<"7", ",", "7", "7", "9">> >>),
     date   |-> Some(<< <<"N","o","v"," ","2","0",","," ","2","0","2","2">> >>)]

ExampleDate == <<"2","0","2","2","-","1","1","-","2","0">>

\* C17: extraction of one catalog-list entry yields the typed triple of its
\* three texts: the number written '#N' yields N, the likes written with
\* thousands separators yield their count, and the date written
\* 'Mon D, YYYY' yields 'YYYY-MM-DD' with month and day on two digits; the
\* entry (#24, 7,779, Nov 20, 2022) yields (24, 7779, "2022-11-20").
C17_EntryTriple ==
    entry # None =>
        LET e == Unwrap(entry)
        IN  /\ \A n \in Numbers :
                 raw.number = RenderNumber(n) /\ n <= 65535
                     => e.chapter = Some(n)
            /\ \A k \in LikeCounts :
                 raw.likes = RenderLikes(k) /\ e.chapter # None
                     => e.likes = Some(k)
            /\ \A m \in 1..Len(MonthNames), d \in Days, y \in Years,
                  pad \in BOOLEAN :
                 /\ raw.date = RenderDate(m, d, y, pad)
                 /\ d <= DaysIn(m, y)
                 /\ e.likes # None
                 => e.date = Some(Padded(y, 4) \o <<"-">> \o Padded(m, 2)
                                  \o <<"-">> \o Padded(d, 2))
            /\ raw = ExampleEntry
                 => e = [outcome |-> "ok", chapter |-> Some(24),
                         likes |-> Some(7779), date |-> Some(ExampleDate)]

\* The entry of the tests was extracted.
C17_Witness ==
    entry # None /\ raw = ExampleEntry /\ Unwrap(entry).outcome = "ok"

\* The pages whose fetch or extraction failed.
FailedPages == hlog \cup HPanicked

\* C13: when the fetch or the extraction of a single catalog page fails, the
\* harvest is not aborted: it returns a map, the failed page contributes
\* nothing to it and the map holds every entry of every other page.
C13_PageFailureTolerated ==
    \A p \in PageIds :
        (hpc \in {"returned", "panicked"} /\ FailedPages = {p}) =>
            /\ hpc = "returned"
            /\ publish_map =
                   InsertAll(<<>>,
                       Flatten([q \in PageIds |->
                                   IF q = p THEN <<>>
                                   ELSE chapter(catalog[q]).list], 1))

\* Entry j of page q comes after entry i of page p in the flattened list.
After(q, j, p, i) == q > p \/ (q = p /\ j > i)

\* Entry i of page p is the last one of its chapter id in the catalog.
LastOfId(p, i) ==
    \A q \in PageIds : \A j \in 1..Len(hlist[q]) :
        After(q, j, p, i) => hlist[q][j].chapter # hlist[p][i].chapter

\* C14: the map the harvester returns holds one date per chapter id, and an
\* id that two pages list with different dates has the date of the entry
\* inserted last, the one of the later page of the flattened list.
C14_LastWriteWins ==
    hpc = "returned" =>
        /\ DOMAIN publish_map =
               UNION {{hlist[p][i].chapter : i \in 1..Len(hlist[p])} :
                         p \in PageIds}
        /\ \A p \in PageIds : \A i \in 1..Len(hlist[p]) :
               LastOfId(p, i) =>
                   publish_map[hlist[p][i].chapter] = hlist[p][i].date

\* Two pages listed chapter 1 with different dates, the later page ended
\* first, and the map has the later page's date.
C14_Witness ==
    /\ hpc = "returned"
    /\ hdisorder
    /\ \E p, q \in PageIds :
          /\ p < q
          /\ hlist[p] # <<>> /\ hlist[q] # <<>>
          /\ hlist[p][1].chapter = hlist[q][Len(hlist[q])].chapter
          /\ hlist[p][1].date # hlist[q][Len(hlist[q])].date

\* C15: no catalog page's GET is issued without the rate limiter's sleep of
\* 500, 1000 or 1500 ms having been taken for that page before it.
C15_DelayBeforeGet ==
    \A p \in hgets : hslept[p] \in {DelayUnit * rand : rand \in Rands}

\* C12: every record emitted has its published date from the publish map:
\* the map's date of the record's number when the map has that id, and
\* none only when it has not.
C12_PublishedBackfilled ==
    \A ch \in Ids :
        out[ch] # None =>
            LET r == Unwrap(out[ch])
            IN  IF r.number \in DOMAIN publish_map
                THEN r.published = Some(publish_map[r.number])
                ELSE r.published = None

\* C19: chapter::parse builds the global pool with 8 threads before any
\* work; when the pool exists already, built by an earlier call or by the
\* harvester's parallel iteration, the call returns an error and has fetched
\* no chapter.  So at most one call of a process returns records, and no
\* chapter is fetched on a pool of another size than 8.
C19_PoolOnce ==
    /\ pc = "err" => fetched = {} /\ \A ch \in Ids : st[ch] = "pending"
    /\ returns <= 1
    /\ (fetched # {} \/ InProgress # {}) => pool = NumThreads
    /\ pc \in {"par_iter", "returned", "panicked"} => pool = NumThreads

\* The harvester ran first on a pool of rayon's default size, and the call
\* of chapter::parse after it failed.
C19_Witness ==
    /\ pc = "err"
    /\ hpc = "returned"
    /\ pool # NumThreads
    /\ returns = 0

====
